---------------------------- MODULE Spec2Model ----------------------------
(***************************************************************************)
(* A model of simple-web-proxy: the address guard (isBlockedIP), the       *)
(* /proxy forwarding handler with its manual redirect loop and per-session *)
(* cookie jars, and the /ws relay handler.                                 *)
(*                                                                         *)
(* The repository holds several variants of the server.  Two of them carry *)
(* the full forwarding engine and are modelled side by side, selected by   *)
(* the variable `variant`:                                                 *)
(*   "server"  - src/server.js                                             *)
(*   "part003" - src/unnamed/part_003                                      *)
(* Every handler is split exactly at its `await`s: between two awaits the  *)
(* JavaScript event loop runs the code atomically.                         *)
(***************************************************************************)
EXTENDS Integers, Sequences, FiniteSets, TLC

VARIABLES
    variant,     \* which variant of the server is running
    addr,        \* address guard: the address string under classification
    verdict,     \* address guard: "none" | "blocked" | "allowed"
    slots,       \* the request slots that may run concurrently
    chainCap,    \* the longest redirect chain the upstream world produces
    quota,       \* the number of inbound /proxy requests of a behaviour
    served,      \* number of inbound /proxy requests received so far
    minted,      \* number of session ids minted so far (sids are 1..minted)
    cookieJar,   \* the LRU: jarKey -> jar object id (NoJar when absent)
    jars,        \* heap of tough.CookieJar objects: id -> set of cookies
    h,           \* per slot: the locals of the /proxy handler
    w,           \* the locals of the /ws handler
    recency,     \* the LRU: its keys, the most recently used first
    passed,      \* header pass-through: upstream response and what is sent
    html,        \* HTML rewriting: an attribute or a page, before and after
    entry        \* entry points: a request from the wire to its target

vars == <<variant, addr, verdict, slots, chainCap, quota, served, minted,
          cookieJar, jars, h, w, recency, passed, html, entry>>

(***************************************************************************)
(* Bounds of the model.                                                    *)
(***************************************************************************)
MaxSessions  == 2   \* session ids that can be minted
MaxJars      == 3   \* tough.CookieJar objects alive at a time
MaxChain     == 6   \* Spec: the longest redirect chain of the upstream world
MaxRequests  == 1   \* Spec: inbound /proxy requests per behaviour
JarChain     == 1   \* SessionSpec: the longest redirect chain
JarRequests  == 2   \* SessionSpec, ConcSpec: inbound /proxy requests
MaxFrames    == 2   \* WsSpec: frames each peer of a tunnel sends
LruMax       == 2   \* capacity of the LRU (max: 100 in the code)
StoreRequests == 3  \* StoreSpec: inbound /proxy requests
MaxPlaces    == 2   \* PageSpec: rewritable places of a page
FrameChain   == 1   \* FrameSpec: the longest redirect chain

(***************************************************************************)
(* Strings that the code inspects character by character are sequences of  *)
(* one-character strings.                                                  *)
(***************************************************************************)
Digit == <<"0", "1", "2", "3", "4", "5", "6", "7", "8", "9">>

RECURSIVE NatToChars(_)
\* decimal rendering of a natural number, as the resolver prints an octet
NatToChars(n) ==
    IF n < 10 THEN <<Digit[n + 1]>>
    ELSE NatToChars(n \div 10) \o <<Digit[(n % 10) + 1]>>

\* the dotted-quad text of an IPv4 address given by its four octets
FormatV4(o) ==
    NatToChars(o[1]) \o <<".">> \o NatToChars(o[2]) \o <<".">> \o
    NatToChars(o[3]) \o <<".">> \o NatToChars(o[4])

\* String.prototype.startsWith
startsWith(s, p) == Len(s) >= Len(p) /\ SubSeq(s, 1, Len(p)) = p

RECURSIVE splitDot(_)
\* String.prototype.split(".")
splitDot(s) ==
    IF \A i \in 1..Len(s) : s[i] # "."
    THEN <<s>>
    ELSE LET k == CHOOSE i \in 1..Len(s) :
                      s[i] = "." /\ \A j \in 1..(i - 1) : s[j] # "."
         IN  <<SubSeq(s, 1, k - 1)>> \o splitDot(SubSeq(s, k + 1, Len(s)))

IsDigits(s) == \A i \in 1..Len(s) : \E d \in 1..10 : Digit[d] = s[i]

DigitVal(c) == (CHOOSE d \in 1..10 : Digit[d] = c) - 1

RECURSIVE DecVal(_)
DecVal(s) ==
    IF Len(s) = 0 THEN 0
    ELSE 10 * DecVal(SubSeq(s, 1, Len(s) - 1)) + DigitVal(s[Len(s)])

NaN == -1
\* Number(str) for the strings split(".") yields here: "" is 0, a run of
\* decimal digits is its value, anything else is NaN (every comparison with
\* NaN is false, as is every comparison of -1 with 172 or 16..31)
Number(s) == IF IsDigits(s) THEN DecVal(s) ELSE NaN

(***************************************************************************)
(* ipaddr.js (library): parse() and range().                               *)
(***************************************************************************)
\* the octets of a four-part dotted decimal text, or <<>> when it is none
V4Octets(s) ==
    LET parts == splitDot(s)
    IN  IF /\ Len(parts) = 4
           /\ \A i \in 1..4 : /\ Len(parts[i]) \in 1..3
                              /\ IsDigits(parts[i])
                              /\ DecVal(parts[i]) <= 255
        THEN [i \in 1..4 |-> DecVal(parts[i])]
        ELSE <<>>

\* ipaddr.IPv4.prototype.SpecialRanges, first match in declaration order
V4Range(o) ==
    IF o[1] = 0 THEN "unspecified"
    ELSE IF o = <<255, 255, 255, 255>> THEN "broadcast"
    ELSE IF o[1] \in 224..239 THEN "multicast"
    ELSE IF o[1] = 169 /\ o[2] = 254 THEN "linkLocal"
    ELSE IF o[1] = 127 THEN "loopback"
    ELSE IF o[1] = 100 /\ o[2] \in 64..127 THEN "carrierGradeNat"
    ELSE IF \/ o[1] = 10
            \/ o[1] = 172 /\ o[2] \in 16..31
            \/ o[1] = 192 /\ o[2] = 168 THEN "private"
    ELSE IF \/ o[1] = 192 /\ o[2] = 0 /\ o[3] \in {0, 2}
            \/ o[1] = 192 /\ o[2] = 88 /\ o[3] = 99
            \/ o[1] = 198 /\ o[2] = 51 /\ o[3] = 100
            \/ o[1] = 203 /\ o[2] = 0 /\ o[3] = 113
            \/ o[1] \in 240..255 THEN "reserved"
    ELSE "unicast"

\* the IPv6 texts of the model with their ipaddr.IPv6 range()
V6Loopback    == <<":", ":", "1">>
V6Unspecified == <<":", ":">>
V6LinkLocal   == <<"f", "e", "8", "0", ":", ":", "1">>
V6UniqueLocal == <<"f", "d", "0", "0", ":", ":", "1">>
V6Global      == <<"2", "6", "0", "6", ":", ":", "1">>
V6Multicast   == <<"f", "f", "0", "2", ":", ":", "1">>
V6DocReserved == <<"2", "0", "0", "1", ":", "d", "b", "8", ":", ":", "1">>
V6MappedLoopback ==
    <<":", ":", "f", "f", "f", "f", ":">> \o FormatV4(<<127, 0, 0, 1>>)
V6MappedPrivate ==
    <<":", ":", "f", "f", "f", "f", ":">> \o FormatV4(<<172, 16, 0, 1>>)

V6Range(s) ==
    CASE s = V6Loopback       -> "loopback"
      [] s = V6Unspecified    -> "unspecified"
      [] s = V6LinkLocal      -> "linkLocal"
      [] s = V6UniqueLocal    -> "uniqueLocal"
      [] s = V6Global         -> "unicast"
      [] s = V6Multicast      -> "multicast"
      [] s = V6DocReserved    -> "reserved"
      [] s = V6MappedLoopback -> "ipv4Mapped"
      [] s = V6MappedPrivate  -> "ipv4Mapped"
      [] OTHER                -> "invalid"

\* ipaddr.parse(addr).range(); "invalid" stands for parse() throwing
ipaddrRange(s) ==
    IF V4Octets(s) # <<>> THEN V4Range(V4Octets(s)) ELSE V6Range(s)

(***************************************************************************)
(* The address guard of the server.                                        *)
(***************************************************************************)
isPrivate172(address) ==
    LET parts == splitDot(address)
    IN  /\ Len(parts) >= 2
        /\ Number(parts[1]) = 172
        /\ Number(parts[2]) >= 16
        /\ Number(parts[2]) <= 31

isPrivateIPv6(address) ==
    IF ipaddrRange(address) = "invalid"
    THEN TRUE                                   \* catch { return true }
    ELSE ipaddrRange(address) \in
             {"loopback", "linkLocal", "uniqueLocal", "unspecified"}

isBlockedIP(address) ==
    \/ startsWith(address, <<"1", "2", "7", ".">>)
    \/ startsWith(address, <<"1", "0", ".">>)
    \/ startsWith(address, <<"1", "9", "2", ".", "1", "6", "8", ".">>)
    \/ isPrivate172(address)
    \/ isPrivateIPv6(address)

(***************************************************************************)
(* The world outside the proxy: host names and what DNS answers for them.  *)
(***************************************************************************)
Hosts == {"a.example", "b.example", "internal", "nxdomain", "reserved.example"}

\* dns.lookup(hostname, {all: true}): the addresses, or a rejection
\* (ENOTFOUND) for a name with no address
Lookup(hostname) ==
    CASE hostname = "a.example" ->
             [ok |-> TRUE, addrs |-> <<FormatV4(<<93, 184, 216, 34>>)>>]
      [] hostname = "b.example" ->
             [ok |-> TRUE, addrs |-> <<FormatV4(<<10, 0, 0, 5>>),
                                       FormatV4(<<8, 8, 8, 8>>)>>]
      [] hostname = "internal" ->
             [ok |-> TRUE, addrs |-> <<FormatV4(<<127, 0, 0, 1>>),
                                       FormatV4(<<169, 254, 169, 254>>)>>]
      [] hostname = "reserved.example" ->
             [ok |-> TRUE, addrs |-> <<FormatV4(<<240, 0, 0, 1>>)>>]
      [] OTHER -> [ok |-> FALSE, addrs |-> <<>>]

\* the outcome of resolveRedirect(url): "ok" when results.find() finds an
\* address that is not blocked, else the error thrown
resolveRedirect(hostname) ==
    LET results == Lookup(hostname)
    IN  IF ~results.ok THEN "ENOTFOUND"
        ELSE IF \E i \in 1..Len(results.addrs) : ~isBlockedIP(results.addrs[i])
             THEN "ok"
             ELSE "Blocked IP"

\* resolveRedirect tabulated over the host names of the model
resolved == [x \in Hosts |-> resolveRedirect(x)]

(***************************************************************************)
(* Inbound requests.                                                       *)
(***************************************************************************)
NoSid == 0
Sids == 1..MaxSessions

\* req.query.url: absent, a javascript:/data:/# string, a string that
\* new URL() rejects, an http(s) URL, or a URL of another scheme (ftp:)
RawTargets ==
    {[kind |-> k, host |-> ""] : k \in {"missing", "javascript", "unparseable"}}
    \cup {[kind |-> k, host |-> x] : k \in {"http", "ftp"}, x \in Hosts}

\* validateTarget(raw): "ok" when new URL(raw) is returned, else the error
validateTarget(raw) ==
    CASE raw.kind = "missing"     -> "Invalid URL"
      [] raw.kind = "javascript"  -> "Blocked URL"
      [] raw.kind = "unparseable" -> "TypeError"
      [] OTHER                    -> "ok"

\* the Origin header of the inbound request against ALLOWED_ORIGINS
Origins == {"absent", "allowed", "foreign"}
originAllowed(origin) == origin # "foreign"

(***************************************************************************)
(* Cookies and jars.  A cookie carries, beside its name, the host whose    *)
(* response set it and the session under which it was recorded.            *)
(***************************************************************************)
CookieNames == {"id", "pref"}
Cookies == [name : CookieNames, setBy : Hosts, sess : Sids]

NoJar  == 0
JarIds == 1..MaxJars
JarKeys == Sids \X Hosts

\* jarKey = proxySid + ":" + host
jarKey(sid, host) == <<sid, host>>

\* tough.CookieJar.setCookie: a cookie replaces the one of the same name
\* (all cookies of a jar have the jar's host as domain and path "/")
setCookie(jar, c) == {x \in jar : x.name # c.name} \cup {c}

\* a recency list without `key`
Remove(rc, key) == SelectSeq(rc, LAMBDA k : k # key)

\* cookieJar.get(key) of lru-cache: a hit makes the key the most recently
\* used (entries do not age in the model: no request is 30 minutes apart
\* from the one before)
lruGet(cj, rc, key) ==
    IF cj[key] # NoJar THEN <<key>> \o Remove(rc, key) ELSE rc

\* an eviction that picks the entry used last but one
victimNewest(rc) == rc[2]

\* the entry that lru-cache evicts: the least recently used
victim(rc) == rc[Len(rc)]

\* cookieJar.set(key, jar) of lru-cache: the key becomes the most recently
\* used, and beyond `max` entries the victim is deleted
lruSet(cj, rc, key, jar) ==
    LET rc1 == <<key>> \o Remove(rc, key)
        cj1 == [cj EXCEPT ![key] = jar]
    IN  IF Len(rc1) > LruMax
        THEN [cj |-> [cj1 EXCEPT ![victim(rc1)] = NoJar],
              rc |-> Remove(rc1, victim(rc1)),
              evicted |-> <<victim(rc1)>>]
        ELSE [cj |-> cj1, rc |-> rc1, evicted |-> <<>>]

\* what an upstream answers to one request; the Location of a redirect is
\* an absolute http(s) URL, an absolute URL of another scheme ("foreign"),
\* a relative reference, or absent
Responses ==
    {[kind |-> "error", loc |-> "none", to |-> "", setCookie |-> "none"]}
    \cup {[kind |-> "redirect", loc |-> l, to |-> t, setCookie |-> s] :
            l \in {"absolute", "foreign"}, t \in Hosts,
            s \in {"none"} \cup CookieNames}
    \cup {[kind |-> "redirect", loc |-> l, to |-> "", setCookie |-> s] :
            l \in {"relative", "none"}, s \in {"none"} \cup CookieNames}
    \cup {[kind |-> "final", loc |-> "none", to |-> "", setCookie |-> s] :
            s \in {"none", "rejected"} \cup CookieNames}

\* no response is being passed through, no attribute being rewritten, no
\* request at an entry point
NoPass == [stage |-> "none"]
NoHtml == [stage |-> "none"]
NoEntry == [stage |-> "none"]

(***************************************************************************)
(* The /proxy handler.                                                     *)
(***************************************************************************)
Slots == {1, 2}

NoCookie == [proxySid |-> FALSE, jar |-> {}]
NoResponse == [status |-> 0, from |-> "", setCookie |-> "none"]
NoRes == [status |-> 0, body |-> "", log |-> "", setSid |-> FALSE,
          recorded |-> "none", evicted |-> <<>>]

\* The frame of an inbound request: req.method, req.rawBody ("" is the
\* empty buffer) and the names of its headers other than Cookie and Origin.
Methods == {"GET", "HEAD", "POST"}
Bodies == {"", "data"}
ClientHeaders == {"host", "content-length", "accept"}
Frames ==
    [method : Methods, body : Bodies,
     headers : {hs \in SUBSET ClientHeaders : "host" \in hs}]

\* a GET without a body
PlainReq == [method |-> "GET", body |-> "", headers |-> {"host"}]

\* options: method, the client's headers it carries, the Host header the
\* handler itself has set ("" when none), the body ("none" when the
\* object has no body property)
NoOptions == [method |-> "", headers |-> {}, host |-> "", body |-> "none"]

\* const options = { method, headers }, then options.body for a method
\* other than GET and HEAD
buildOptions(req) ==
    [method |-> req.method,
     headers |-> req.headers \ {"host", "content-length"},
     host |-> "",
     body |-> IF req.method \notin {"GET", "HEAD"} THEN req.body ELSE "none"]

\* The locals of one run of the handler.  Beside the variables of the code:
\*   chain      - how many redirects (3xx with Location) the upstream world
\*                answers before it answers anything else
\*   fetches    - how many upstream requests the run has issued
\*   blockedHop - a Location named a host that resolves only to blocked
\*                addresses
\*   elapsed    - 15 seconds have passed since the handler entered the
\*                redirect loop and the loop has not ended
\* url, fetchUrl and nextUrl hold the host name of the URL, scheme,
\* fetchScheme and nextScheme its protocol.  key is req.query.key, which
\* only src/unnamed/part_002 reads.  req is the frame of the inbound
\* request, options the object handed to every fetch of the loop.
IdleSlot ==
    [pc |-> "idle", sid |-> NoSid, newSid |-> FALSE, url |-> "",
     fetchUrl |-> "", nextUrl |-> "", scheme |-> "", fetchScheme |-> "",
     nextScheme |-> "", redirectCount |-> 0,
     cookie |-> NoCookie, response |-> NoResponse, prev |-> NoJar,
     chain |-> 0, fetches |-> 0, blockedHop |-> FALSE, elapsed |-> FALSE,
     key |-> "absent", req |-> PlainReq, options |-> NoOptions,
     res |-> NoRes]

\* the jar objects still referenced by the LRU or by a running handler;
\* all others are garbage and are cleared
Collect(cj, hh, js) ==
    LET live == {cj[k] : k \in JarKeys} \cup {hh[p].prev : p \in Slots}
    IN  [i \in JarIds |-> IF i \in live THEN js[i] ELSE {}]

\* new tough.CookieJar(): the first object id not in use
NewJar(cj, hh) ==
    LET live == {cj[k] : k \in JarKeys} \cup {hh[p].prev : p \in Slots}
    IN  CHOOSE i \in JarIds : i \notin live /\ \A j \in JarIds : j < i => j \in live

\* the handler ends: res.status(status).send(body); `log` is what
\* console.error printed, `recorded` the name of the cookie it stored,
\* `setSid` that getOrCreateProxySid has set the proxy_sid cookie on res
\* (the headers that leave with the response are followed in `passed`)
\* (`evicted`: the keys its cookieJar.set pushed out of the LRU)
Respond(slot, status, body, log, recorded) ==
    [IdleSlot EXCEPT !.pc = "done", !.sid = slot.sid, !.newSid = slot.newSid,
                     !.url = slot.url, !.scheme = slot.scheme,
                     !.chain = slot.chain,
                     !.fetches = slot.fetches,
                     !.blockedHop = slot.blockedHop,
                     !.elapsed = slot.elapsed,
                     !.key = slot.key,
                     !.res = [status |-> status, body |-> body, log |-> log,
                              setSid |-> slot.newSid, recorded |-> recorded,
                              evicted |-> <<>>]]

\* a catch block that tells the client when the address guard refused
FetchErrorNamed(slot, err) ==
    IF err = "Blocked IP"
    THEN Respond(slot, 403, "blocked address", err, "none")
    ELSE Respond(slot, 500, "fetch error", err, "none")

\* catch (err) { console.error(err); res.status(500).send("fetch error") }
FetchError(slot, err) == Respond(slot, 500, "fetch error", err, "none")

\* the locals of slot p's handler become `slot`, the LRU holds cj with
\* recency list rc; garbage jars are collected
StepStore(p, slot, cj, js, rc) ==
    /\ h' = [h EXCEPT ![p] = slot]
    /\ cookieJar' = cj
    /\ jars' = Collect(cj, [h EXCEPT ![p] = slot], js)
    /\ recency' = rc

\* a step that does not use the LRU
Step(p, slot, cj, js) == StepStore(p, slot, cj, js, recency)

\* getOrCreateProxySid(req, res): the sid of the proxy_sid cookie, or a
\* freshly minted one (crypto.randomBytes) that is set on the response
getOrCreateProxySid(sidIn) == IF sidIn # NoSid THEN sidIn ELSE minted + 1

\* A request arrives: the Origin middleware, getOrCreateProxySid,
\* validateTarget, and the call of resolveRedirect up to its await.
\* `chain` is the redirect chain the upstream world holds for the target.
ReceiveReq(p, sidIn, raw, origin, chain, req) ==
    /\ p \in slots
    /\ h[p].pc = "idle"
    /\ served < quota
    /\ sidIn \in {NoSid} \cup (1..minted)
    /\ sidIn = NoSid /\ originAllowed(origin) => minted < MaxSessions
    /\ chain \in 0..chainCap
    /\ validateTarget(raw) # "ok" \/ ~originAllowed(origin) => chain = 0
    /\ served' = served + 1
    /\ IF ~originAllowed(origin)
       THEN /\ Step(p, Respond(IdleSlot, 403, "forbidden", "", "none"),
                    cookieJar, jars)
            /\ UNCHANGED minted
       ELSE LET slot == [IdleSlot EXCEPT !.sid = getOrCreateProxySid(sidIn),
                                         !.newSid = (sidIn = NoSid),
                                         !.req = req]
            IN  /\ minted' = IF sidIn = NoSid THEN minted + 1 ELSE minted
                /\ IF validateTarget(raw) # "ok"
                   THEN Step(p, FetchError(slot, validateTarget(raw)),
                             cookieJar, jars)
                   ELSE Step(p, [slot EXCEPT !.pc = "lookup",
                                             !.url = raw.host,
                                             !.scheme = raw.kind,
                                             !.chain = chain],
                             cookieJar, jars)
    /\ UNCHANGED <<variant, addr, verdict, slots, chainCap, quota, w,
                   passed, html, entry>>

\* a request with the frame of a plain GET
Receive(p, sidIn, raw, origin, chain) ==
    ReceiveReq(p, sidIn, raw, origin, chain, PlainReq)

\* options.headers: the client's headers without host and content-length,
\* so its Cookie header (proxy_sid=...) too; replaced by the jar's cookie
\* string when the LRU holds a jar for jarKey
outgoingCookie(slot) ==
    LET jar == cookieJar[jarKey(slot.sid, slot.url)]
    IN  IF jar # NoJar
        THEN [proxySid |-> FALSE, jar |-> jars[jar]]
        ELSE [proxySid |-> ~slot.newSid, jar |-> {}]

\* The first dns.lookup answers: resolveRedirect(url) throws or the
\* handler builds options and issues the first fetch.
Resolved(p) ==
    /\ p \in slots
    /\ h[p].pc = "lookup"
    /\ IF resolved[h[p].url] # "ok"
       THEN Step(p, FetchError(h[p], resolved[h[p].url]), cookieJar, jars)
       ELSE StepStore(p, [h[p] EXCEPT !.pc = "fetch",
                                      !.fetchUrl = h[p].url,
                                      !.fetchScheme = h[p].scheme,
                                      !.cookie = outgoingCookie(h[p]),
                                      !.options = buildOptions(h[p].req),
                                      !.fetches = 1],
                      cookieJar, jars,
                      lruGet(cookieJar, recency, jarKey(h[p].sid, h[p].url)))
    /\ UNCHANGED <<variant, addr, verdict, slots, chainCap, quota, served,
                   minted, w, passed, html, entry>>

\* After the redirect loop: the Set-Cookie headers of `resp` are recorded
\* (prev = cookieJar.get(jarKey) || new tough.CookieJar(); prev.setCookie
\* runs up to the await of Promise.all), or, without Set-Cookie, the
\* response is handed to the client.
ExitLoop(p, slot, resp) ==
    IF resp.setCookie = "none"
    THEN Step(p, Respond(slot, resp.status, resp.from, "", "none"),
              cookieJar, jars)
    ELSE LET key  == jarKey(slot.sid, slot.url)
             prev == IF cookieJar[key] # NoJar THEN cookieJar[key]
                     ELSE NewJar(cookieJar, h)
             c    == [name |-> resp.setCookie, setBy |-> resp.from,
                      sess |-> slot.sid]
             js   == IF resp.setCookie = "rejected" THEN jars
                     ELSE [jars EXCEPT ![prev] = setCookie(jars[prev], c)]
         IN  StepStore(p, [slot EXCEPT !.pc = "setCookie", !.prev = prev,
                                       !.response = resp],
                       cookieJar, js, lruGet(cookieJar, recency, key))

\* the base against which a relative Location is resolved
locationBase(slot) == IF variant = "server" THEN slot.url ELSE slot.fetchUrl

\* new URL(location, base).hostname
nextUrl(slot, r) ==
    IF r.loc \in {"absolute", "foreign"} THEN r.to ELSE locationBase(slot)

\* new URL(location, base).protocol
nextScheme(slot, r) ==
    CASE r.loc = "absolute" -> "http"
      [] r.loc = "foreign"  -> "ftp"
      [] OTHER -> IF variant = "server" THEN slot.scheme ELSE slot.fetchScheme

\* a loop that follows a redirect as a browser does: with GET, without body
hopOptionsDowngraded(slot) ==
    [slot.options EXCEPT !.method = "GET", !.body = "none"]

\* options on the next hop: the same object; server.js has set
\* options.headers.host = nextUrl.hostname
hopOptions(slot) ==
    IF variant = "server" THEN [slot.options EXCEPT !.host = slot.nextUrl]
    ELSE slot.options

\* a loop that follows a redirect without resolving its target
hopCheckSkipped(hostname) == "ok"

\* await resolveRedirect(nextUrl) inside the loop
hopCheck(hostname) == resolved[hostname]

\* the throw inside the do-while of server.js; part_003 has none
tooManyRedirects(count) == variant = "server" /\ count > 5

\* the while condition once the response is a redirect
loopAgain(count) == IF variant = "server" THEN TRUE ELSE count < 5

\* fetch() settles: a network error, a redirect, or another response.
\* fetch rejects a URL whose scheme is not http(s) ("fetch failed").
FetchResponse(p, r) ==
    /\ p \in slots
    /\ h[p].pc = "fetch"
    /\ r \in Responses
    /\ h[p].fetchScheme # "http" => r.kind = "error"
    /\ r.kind = "redirect" /\ r.loc # "none" => h[p].fetches <= h[p].chain
    /\ r.kind = "final" \/ (r.kind = "redirect" /\ r.loc = "none")
           => h[p].fetches = h[p].chain + 1
    /\ LET slot == h[p]
           resp == [status |-> IF r.kind = "redirect" THEN 302 ELSE 200,
                    from |-> slot.fetchUrl, setCookie |-> r.setCookie]
       IN  CASE r.kind = "error" ->
                    Step(p, FetchError(slot, "fetch failed"), cookieJar, jars)
             [] r.kind = "redirect" /\ r.loc = "none" ->
                    ExitLoop(p, slot, resp)               \* break
             [] r.kind = "redirect" /\ r.loc # "none" ->
                    Step(p, [slot EXCEPT
                               !.pc = "hopLookup",
                               !.nextUrl = nextUrl(slot, r),
                               !.nextScheme = nextScheme(slot, r),
                               !.response = IF variant = "server"
                                            THEN NoResponse ELSE resp,
                               !.blockedHop =
                                   \/ slot.blockedHop
                                   \/ resolved[nextUrl(slot, r)] = "Blocked IP"],
                         cookieJar, jars)
             [] r.kind = "final" ->
                    IF tooManyRedirects(slot.redirectCount + 1)
                    THEN Step(p, FetchError(slot, "Too many redirects"),
                              cookieJar, jars)
                    ELSE ExitLoop(p, [slot EXCEPT !.redirectCount = @ + 1],
                                  resp)
    /\ UNCHANGED <<variant, addr, verdict, slots, chainCap, quota, served,
                   minted, w, passed, html, entry>>

\* controller.signal.aborted: server.js arms setTimeout(() =>
\* controller.abort(), 15000) before the loop and passes the signal to
\* every fetch; part_003 has no timer
aborted(slot) == variant = "server" /\ slot.elapsed

\* 15 seconds pass while the handler is inside the redirect loop.  In
\* server.js the timer calls controller.abort(): a fetch in flight rejects
\* with AbortError, a later fetch rejects at once.
Timeout(p) ==
    /\ p \in slots
    /\ h[p].pc \in {"fetch", "hopLookup"}
    /\ ~h[p].elapsed
    /\ LET slot == [h[p] EXCEPT !.elapsed = TRUE]
       IN  IF aborted(slot) /\ slot.pc = "fetch"
           THEN Step(p, FetchError(slot, "AbortError"), cookieJar, jars)
           ELSE Step(p, slot, cookieJar, jars)
    /\ UNCHANGED <<variant, addr, verdict, slots, chainCap, quota, served,
                   minted, w, passed, html, entry>>

\* The dns.lookup of a redirect target answers: resolveRedirect(nextUrl)
\* throws, or the loop counts the hop and fetches the target or ends.
HopResolved(p) ==
    /\ p \in slots
    /\ h[p].pc = "hopLookup"
    /\ LET slot  == h[p]
           count == slot.redirectCount + 1
           moved == [slot EXCEPT !.fetchUrl = slot.nextUrl, !.nextUrl = "",
                                 !.fetchScheme = slot.nextScheme,
                                 !.nextScheme = "",
                                 !.options = hopOptions(slot),
                                 !.redirectCount = count]
       IN  IF hopCheck(slot.nextUrl) # "ok"
           THEN Step(p, FetchError(slot, hopCheck(slot.nextUrl)),
                     cookieJar, jars)
           ELSE IF tooManyRedirects(count)
           THEN Step(p, FetchError(slot, "Too many redirects"),
                     cookieJar, jars)
           ELSE IF loopAgain(count) /\ aborted(slot)
           THEN Step(p, FetchError(slot, "AbortError"), cookieJar, jars)
           ELSE IF loopAgain(count)
           THEN Step(p, [moved EXCEPT !.pc = "fetch",
                                      !.response = NoResponse,
                                      !.fetches = @ + 1],
                     cookieJar, jars)
           ELSE ExitLoop(p, [moved EXCEPT !.response = NoResponse],
                         slot.response)
    /\ UNCHANGED <<variant, addr, verdict, slots, chainCap, quota, served,
                   minted, w, passed, html, entry>>

\* Promise.all(cookies.map(...)) settles: a rejected setCookie throws, else
\* cookieJar.set(jarKey, prev) and the response goes to the client.
StoreCookies(p) ==
    /\ p \in slots
    /\ h[p].pc = "setCookie"
    /\ LET slot == h[p]
           key  == jarKey(slot.sid, slot.url)
       IN  IF slot.response.setCookie = "rejected"
           THEN Step(p, FetchError(slot, "setCookie rejected"), cookieJar, jars)
           ELSE LET store == lruSet(cookieJar, recency, key, slot.prev)
                    done  == Respond(slot, slot.response.status,
                                     slot.response.from, "",
                                     slot.response.setCookie)
                IN  StepStore(p, [done EXCEPT !.res.evicted = store.evicted],
                              store.cj, jars, store.rc)
    /\ UNCHANGED <<variant, addr, verdict, slots, chainCap, quota, served,
                   minted, w, passed, html, entry>>

\* the client has its response; the slot is free for the next request
Reset(p) ==
    /\ p \in slots
    /\ h[p].pc = "done"
    /\ Step(p, IdleSlot, cookieJar, jars)
    /\ UNCHANGED <<variant, addr, verdict, slots, chainCap, quota, served,
                   minted, w, passed, html, entry>>

(***************************************************************************)
(* The /ws handler.                                                        *)
(***************************************************************************)
\* req.query.url of an upgrade request
WsTargets ==
    {[kind |-> k, host |-> ""] : k \in {"missing", "unparseable"}}
    \cup {[kind |-> k, host |-> x] : k \in {"http", "ws"}, x \in Hosts}

\* !targetUrl || !/^wss?:\/\//.test(targetUrl); an "unparseable" target is
\* one that has the prefix and makes new URL() throw
wsRejected(raw) == raw.kind \in {"missing", "http"}

\* an address test that, like resolveRedirect, lets a name pass as soon as
\* one of its addresses is not blocked
wsBlockedOnlyIfAll(hostname) ==
    \A i \in 1..Len(Lookup(hostname).addrs) :
        isBlockedIP(Lookup(hostname).addrs[i])

\* the address test of the relay: any blocked address closes the socket
wsBlocked(hostname) ==
    \E i \in 1..Len(Lookup(hostname).addrs) :
        isBlockedIP(Lookup(hostname).addrs[i])

\* wsBlocked tabulated over the host names of the model
wsBlockedHost == [x \in Hosts |-> wsBlocked(x)]

\* The locals of the handler and the two sockets.
\*   pc           - "idle" (no client), "lookup" (handler at its await),
\*                  "open" (handler ended, listeners wired), "closed"
\*                  (client socket closed with closeCode), "hung" (handler
\*                  died, client socket open), "crashed" (process died)
\*   upstream     - "none" (new WebSocket not called), "connecting", "open",
\*                  "closed" (with upstreamCode)
\*   sent         - the frames the client has sent, toUpstream those handed
\*                  to the upstream socket; fromUpstream and toClient alike
IdleWs == [pc |-> "idle", raw |-> [kind |-> "missing", host |-> ""],
           sid |-> NoSid, origin |-> "absent", closeCode |-> 0,
           upstream |-> "none", upstreamCode |-> 0, cookie |-> {},
           sent |-> <<>>, toUpstream |-> <<>>,
           fromUpstream |-> <<>>, toClient |-> <<>>]

\* ws.close(code) and return
WsClose(conn, code) == [conn EXCEPT !.pc = "closed", !.closeCode = code]

\* an exception in the handler: part_003 catches it and closes with 1011,
\* server.js has no try and leaves the socket as it is
WsThrow(conn) ==
    IF variant = "server" THEN [conn EXCEPT !.pc = "hung"]
    ELSE WsClose(conn, 1011)

\* An upgrade request arrives: the prefix test, new URL(targetUrl), and
\* the call of dns.lookup up to its await.
WsConnect(raw, sidIn, origin) ==
    /\ w.pc = "idle"
    /\ sidIn \in {NoSid} \cup (1..minted)
    /\ LET conn == [IdleWs EXCEPT !.raw = raw, !.sid = sidIn,
                                  !.origin = origin]
       IN  w' = IF wsRejected(raw) THEN WsClose(conn, 1008)
                ELSE IF raw.kind = "unparseable" THEN WsThrow(conn)
                ELSE [conn EXCEPT !.pc = "lookup"]
    /\ UNCHANGED <<variant, addr, verdict, slots, chainCap, quota, served,
                   minted, cookieJar, jars, h, passed, html, recency, entry>>

\* the Origin test of server.js; part_003 has none
wsOriginRefused(origin) == variant = "server" /\ ~originAllowed(origin)

\* jar ? await jar.getCookieString(targetUrl) : ""
wsCookie(conn) ==
    IF conn.sid # NoSid /\ cookieJar[jarKey(conn.sid, conn.raw.host)] # NoJar
    THEN jars[cookieJar[jarKey(conn.sid, conn.raw.host)]]
    ELSE {}

\* dns.lookup answers: the address test, the Origin test, the cookie
\* string, and new WebSocket(target).
WsResolved ==
    /\ w.pc = "lookup"
    /\ w' = IF ~Lookup(w.raw.host).ok THEN WsThrow(w)
            ELSE IF wsBlockedHost[w.raw.host] THEN WsClose(w, 1008)
            ELSE IF wsOriginRefused(w.origin) THEN WsClose(w, 1008)
            ELSE [w EXCEPT !.pc = "open", !.upstream = "connecting",
                           !.cookie = wsCookie(w)]
    /\ recency' = IF /\ Lookup(w.raw.host).ok
                     /\ ~wsBlockedHost[w.raw.host]
                     /\ ~wsOriginRefused(w.origin)
                     /\ w.sid # NoSid
                  THEN lruGet(cookieJar, recency, jarKey(w.sid, w.raw.host))
                  ELSE recency
    /\ UNCHANGED <<variant, addr, verdict, slots, chainCap, quota, served,
                   minted, cookieJar, jars, h, passed, html, entry>>

\* the handshake with the upstream completes
UpstreamOpen ==
    /\ w.upstream = "connecting"
    /\ w' = [w EXCEPT !.upstream = "open"]
    /\ UNCHANGED <<variant, addr, verdict, slots, chainCap, quota, served,
                   minted, cookieJar, jars, h, passed, html, recency, entry>>

\* ws.on("message", d => targetWs.send(d)): part_003 registers it when the
\* handler ends, server.js never; targetWs.send throws unless the upstream
\* socket is open
clientListens(conn) == variant = "part003" /\ conn.pc = "open"

\* The client sends a frame on its open socket.  A frame that meets no
\* listener, or whose targetWs.send throws, is gone.
ClientFrame ==
    /\ w.pc \in {"lookup", "open", "hung"}
    /\ Len(w.sent) < MaxFrames
    /\ LET d == Len(w.sent) + 1
       IN  w' = [w EXCEPT
                   !.sent = Append(@, d),
                   !.toUpstream = IF clientListens(w) /\ w.upstream = "open"
                                  THEN Append(@, d) ELSE @]
    /\ UNCHANGED <<variant, addr, verdict, slots, chainCap, quota, served,
                   minted, cookieJar, jars, h, passed, html, recency, entry>>

\* The upstream sends a frame: targetWebSocket.on('message', message =>
\* ws.send(message)).
UpstreamFrame ==
    /\ w.upstream = "open"
    /\ Len(w.fromUpstream) < MaxFrames
    /\ LET d == Len(w.fromUpstream) + 1
       IN  w' = [w EXCEPT
                   !.fromUpstream = Append(@, d),
                   !.toClient = IF w.pc = "open" THEN Append(@, d) ELSE @]
    /\ UNCHANGED <<variant, addr, verdict, slots, chainCap, quota, served,
                   minted, cookieJar, jars, h, passed, html, recency, entry>>

\* close codes a peer may give: normal closure, going away
PeerCodes == {1000, 1001}

\* the code the peer sees when close() is called without one
NoStatus == 1005

\* ws.on('close'): server.js calls targetWebSocket.close(1002, "Protocol
\* error"), part_003 targetWs.close()
onClientClose(conn) ==
    IF conn.upstream \in {"connecting", "open"}
    THEN [conn EXCEPT !.upstream = "closed",
                      !.upstreamCode = IF variant = "server" THEN 1002
                                       ELSE NoStatus]
    ELSE conn

\* The client closes its socket with `code` after the handler has ended.
ClientClose(code) ==
    /\ w.pc = "open"
    /\ code \in PeerCodes
    /\ w' = onClientClose([w EXCEPT !.pc = "closed", !.closeCode = code])
    /\ UNCHANGED <<variant, addr, verdict, slots, chainCap, quota, served,
                   minted, cookieJar, jars, h, passed, html, recency, entry>>

\* The upstream closes its socket with `code`: part_003 has
\* targetWs.on("close", () => ws.close()), server.js has no listener.
UpstreamClose(code) ==
    /\ w.upstream = "open"
    /\ code \in PeerCodes
    /\ LET conn == [w EXCEPT !.upstream = "closed", !.upstreamCode = code]
       IN  w' = IF variant = "part003" /\ conn.pc = "open"
                THEN WsClose(conn, NoStatus)
                ELSE conn
    /\ UNCHANGED <<variant, addr, verdict, slots, chainCap, quota, served,
                   minted, cookieJar, jars, h, passed, html, recency, entry>>

\* the code of a connection that ended without a close frame
Abnormal == 1006

\* The upstream socket fails (connection refused, reset).  server.js has
\* targetWebSocket.on('error', () => ws.close(1002, "Protocol error"));
\* part_003 has no 'error' listener, the event is thrown and ends the
\* process.
UpstreamError ==
    /\ w.upstream \in {"connecting", "open"}
    /\ LET conn == [w EXCEPT !.upstream = "closed", !.upstreamCode = Abnormal]
       IN  w' = IF variant = "server"
                THEN (IF conn.pc = "open" THEN WsClose(conn, 1002) ELSE conn)
                ELSE [conn EXCEPT !.pc = "crashed"]
    /\ UNCHANGED <<variant, addr, verdict, slots, chainCap, quota, served,
                   minted, cookieJar, jars, h, passed, html, recency, entry>>

\* the client is gone; the next upgrade request can arrive
WsReset ==
    /\ w.pc \in {"closed", "hung", "crashed"}
    /\ w' = IdleWs
    /\ UNCHANGED <<variant, addr, verdict, slots, chainCap, quota, served,
                   minted, cookieJar, jars, h, passed, html, recency, entry>>

(***************************************************************************)
(* The address guard applied to one address at a time.                     *)
(***************************************************************************)
V4Samples ==
    {FormatV4(<<a, b, 0, 1>>) :
        a \in {0, 8, 10, 100, 127, 169, 172, 192, 198, 203, 240},
        b \in {0, 15, 16, 31, 32, 64, 168, 254}}

V6Samples ==
    {V6Loopback, V6Unspecified, V6LinkLocal, V6UniqueLocal, V6Global,
     V6Multicast, V6DocReserved, V6MappedLoopback, V6MappedPrivate}

\* strings that ipaddr.parse rejects
BadSamples ==
    {<<>>, <<"l", "o", "c", "a", "l">>, FormatV4(<<999, 0, 0, 1>>),
     <<"1", "2", "7">>, <<"1", ".", "2", ".", "x", ".", "4">>}

Addresses == V4Samples \cup V6Samples \cup BadSamples

\* isBlockedIP(address) is called
Classify ==
    /\ verdict = "none"
    /\ verdict' = IF isBlockedIP(addr) THEN "blocked" ELSE "allowed"
    /\ UNCHANGED <<variant, addr, slots, chainCap, quota, served, minted,
                   cookieJar, jars, h, w, passed, html, recency, entry>>

\* the next address of a lookup result
NextAddress(a) ==
    /\ verdict # "none"
    /\ a \in Addresses
    /\ addr' = a
    /\ verdict' = "none"
    /\ UNCHANGED <<variant, slots, chainCap, quota, served, minted,
                   cookieJar, jars, h, w, passed, html, recency, entry>>

(***************************************************************************)
(* The end of the /proxy handler: the terminal response is handed to the   *)
(* client.                                                                 *)
(***************************************************************************)
\* response.headers.get("content-type")
ContentTypes == {"text/html", "application/javascript", "image/png"}

\* the names of the other headers an upstream response may carry
HeaderNames ==
    {"content-security-policy", "content-security-policy-report-only",
     "x-frame-options", "cross-origin-opener-policy",
     "cross-origin-embedder-policy", "cross-origin-resource-policy",
     "content-encoding", "etag", "set-cookie"}

\* response.status of a terminal response: a success, an error, a redirect
\* without Location (or, in part_003, the redirect that ends the loop)
UpstreamStatuses == {200, 302, 404}

\* the branches that send a text body: contentType.includes("text/html")
\* and, in server.js only, /javascript|ecmascript/i.test(contentType)
sentAsText(ct) ==
    \/ ct = "text/html"
    \/ variant = "server" /\ ct = "application/javascript"

\* The upstream headers that the response to the client carries.  The
\* text branches set content-type and nothing else; the last branch copies
\* every header but content-security-policy.
passThrough(ct, headers) ==
    IF sentAsText(ct) THEN {}
    ELSE {k \in headers : k # "content-security-policy"}

\* The status of the response to the client: res.status(response.status)
\* is called in the last branch only, the text branches send with the
\* status res was created with.
clientStatus(ct, status) == IF sentAsText(ct) THEN 200 ELSE status

\* The Set-Cookie header of the response to the client: the proxy_sid
\* cookie that getOrCreateProxySid has set on res when it minted the sid,
\* overwritten by res.setHeader(k, v) in the last branch when the upstream
\* response carries Set-Cookie.
clientSetCookie(ct, headers, newSid) ==
    CASE ~sentAsText(ct) /\ "set-cookie" \in headers -> "upstream"
      [] newSid -> "proxy_sid"
      [] OTHER -> "none"

\* the redirect loop has ended with a response of the upstream; newSid:
\* the request came without proxy_sid and the handler has minted one
UpstreamResponse(ct, headers, status, newSid) ==
    /\ passed.stage = "none"
    /\ passed' = [stage |-> "upstream", contentType |-> ct,
                  upstream |-> headers, status |-> status,
                  newSid |-> newSid, client |-> {}, clientStatus |-> 0,
                  body |-> "", setCookie |-> "none"]
    /\ UNCHANGED <<variant, addr, verdict, slots, chainCap, quota, served,
                   minted, cookieJar, jars, h, w, recency, html, entry>>

\* res.send(...)
SendResponse ==
    /\ passed.stage = "upstream"
    /\ passed' = [passed EXCEPT
                    !.stage = "sent",
                    !.client = passThrough(passed.contentType,
                                           passed.upstream),
                    !.clientStatus = clientStatus(passed.contentType,
                                                  passed.status),
                    !.body = "upstream",
                    !.setCookie = clientSetCookie(passed.contentType,
                                                  passed.upstream,
                                                  passed.newSid)]
    /\ UNCHANGED <<variant, addr, verdict, slots, chainCap, quota, served,
                   minted, cookieJar, jars, h, w, recency, html, entry>>

\* The handler throws before it has a terminal response: the catch block
\* answers on the res that getOrCreateProxySid has prepared.
CatchResponse(newSid) ==
    /\ passed.stage = "none"
    /\ passed' = [stage |-> "sent", contentType |-> "", upstream |-> {},
                  status |-> 0, newSid |-> newSid, client |-> {},
                  clientStatus |-> 500, body |-> "fetch error",
                  setCookie |-> IF newSid THEN "proxy_sid" ELSE "none"]
    /\ UNCHANGED <<variant, addr, verdict, slots, chainCap, quota, served,
                   minted, cookieJar, jars, h, w, recency, html, entry>>

\* the next response
NextResponse ==
    /\ passed.stage = "sent"
    /\ passed' = NoPass
    /\ UNCHANGED <<variant, addr, verdict, slots, chainCap, quota, served,
                   minted, cookieJar, jars, h, w, recency, html, entry>>

(***************************************************************************)
(* HTML rewriting: html.replace over the href, src and action attributes.  *)
(* Attribute values and URLs are sequences of characters.                  *)
(***************************************************************************)
\* the base URL of a page: origin, directory of the path, last segment
BaseRoot ==
    [origin |->
        <<"h", "t", "t", "p", "s", ":", "/", "/", "e", "x", "a", "m", "p",
          "l", "e", ".", "c", "o", "m">>,
     dir |-> <<"/">>, file |-> <<>>]

BasePage ==
    [origin |->
        <<"h", "t", "t", "p", "s", ":", "/", "/", "e", "x", "a", "m", "p",
          "l", "e", ".", "c", "o", "m">>,
     dir |-> <<"/", "d", "/">>, file |-> <<"p">>]

Bases == {BaseRoot, BasePage}

\* attribute values met in pages
ValAbout ==
    <<"/", "a", "b", "o", "u", "t">>

ValRelative ==
    <<"a", "b", "o", "u", "t">>

ValAbsolute ==
    <<"h", "t", "t", "p", "s", ":", "/", "/", "o", "t", "h", "e", "r", ".",
      "e", "x", "a", "m", "p", "l", "e", "/", "x", "?", "q", "=", "1">>

ValJavascript ==
    <<"j", "a", "v", "a", "s", "c", "r", "i", "p", "t", ":", "v", "o", "i",
      "d", "(", "0", ")">>

ValData ==
    <<"d", "a", "t", "a", ":", ",", "x">>

ValFragment ==
    <<"#", "t", "o", "p">>

ValProtocolRelative ==
    <<"/", "/", "c", "d", "n", ".", "e", "x", "a", "m", "p", "l", "e", "/",
      "l", "i", "b", ".", "j", "s">>

ValMailto ==
    <<"m", "a", "i", "l", "t", "o", ":", "a", "@", "b", ".", "e", "x", "a",
      "m", "p", "l", "e">>

ValBadHost ==
    <<"h", "t", "t", "p", ":", "/", "/", "[">>

ValNoHost ==
    <<"h", "t", "t", "p", "s", ":", "/", "/">>

AttrValues ==
    {<<>>, ValAbout, ValRelative, ValAbsolute, ValJavascript,
     ValData, ValFragment, ValProtocolRelative, ValMailto,
     ValBadHost, ValNoHost}

AttrNames == {"href", "src", "action"}

Letters ==
    {"a", "b", "c", "d", "e", "f", "g", "h", "i", "j", "k", "l", "m", "n",
     "o", "p", "q", "r", "s", "t", "u", "v", "w", "x", "y", "z"}

Capitals ==
    {"A", "B", "C", "D", "E", "F", "G", "H", "I", "J", "K", "L", "M", "N",
     "O", "P", "Q", "R", "S", "T", "U", "V", "W", "X", "Y", "Z"}

\* the position of the first ":" of s, 0 when it has none
firstColon(s) ==
    IF \E i \in 1..Len(s) : s[i] = ":"
    THEN CHOOSE i \in 1..Len(s) : s[i] = ":" /\ \A j \in 1..(i - 1) : s[j] # ":"
    ELSE 0

\* the scheme of a URL string: the letters before its first ":", <<>> when
\* the string does not start with a scheme
schemeOf(s) ==
    LET i == firstColon(s)
    IN  IF i > 1 /\ \A j \in 1..(i - 1) : s[j] \in Letters
        THEN SubSeq(s, 1, i - 1) ELSE <<>>

\* http and https are the special schemes that must have a host
isSpecial(scheme) ==
    scheme \in {<<"h", "t", "t", "p">>, <<"h", "t", "t", "p", "s">>}

\* the characters of s after its first n, up to the next "/"
RECURSIVE hostFrom(_, _)
hostFrom(s, n) ==
    IF n > Len(s) \/ s[n] = "/" THEN <<>>
    ELSE <<s[n]>> \o hostFrom(s, n + 1)

\* the host parser rejects an empty host and an unclosed "["
validHost(host) ==
    /\ host # <<>>
    /\ (\E i \in 1..Len(host) : host[i] = "[")
           => (\E i \in 1..Len(host) : host[i] = "]")

\* new URL(value, base): does it throw?
urlThrows(value) ==
    /\ isSpecial(schemeOf(value))
    /\ ~validHost(hostFrom(value, Len(schemeOf(value)) + 4))

\* new URL(value, base).href for a value that parses (values that need no
\* normalisation: no dot segments, no upper case, no blanks)
urlHref(value, base) ==
    CASE schemeOf(value) # <<>> -> value
      [] value = <<>> -> base.origin \o base.dir \o base.file
      [] startsWith(value, <<"/", "/">>) ->
             schemeOf(base.origin) \o <<":">> \o value
      [] value[1] = "/" -> base.origin \o value
      [] value[1] = "#" -> base.origin \o base.dir \o base.file \o value
      [] OTHER -> base.origin \o base.dir \o value

\* the characters encodeURIComponent leaves alone
Unreserved ==
    Letters \cup Capitals
            \cup {"0", "1", "2", "3", "4", "5", "6", "7", "8", "9"}
            \cup {"-", "_", ".", "!", "~", "*", "'", "(", ")"}

\* encodeURIComponent of one character
encodeChar(c) ==
    CASE c \in Unreserved -> <<c>>
      [] c = ":" -> <<"%", "3", "A">>
      [] c = "/" -> <<"%", "2", "F">>
      [] c = "?" -> <<"%", "3", "F">>
      [] c = "#" -> <<"%", "2", "3">>
      [] c = "[" -> <<"%", "5", "B">>
      [] c = "]" -> <<"%", "5", "D">>
      [] c = "@" -> <<"%", "4", "0">>
      [] c = "=" -> <<"%", "3", "D">>
      [] c = "," -> <<"%", "2", "C">>
      [] c = "&" -> <<"%", "2", "6">>
      [] c = "%" -> <<"%", "2", "5">>
      [] OTHER   -> <<"%", "2", "0">>

RECURSIVE encodeURIComponent(_)
encodeURIComponent(s) ==
    IF s = <<>> THEN <<>>
    ELSE encodeChar(Head(s)) \o encodeURIComponent(Tail(s))

ProxyPrefix ==
    <<"/", "p", "r", "o", "x", "y", "?", "u", "r", "l", "=">>

\* the callback of html.replace: the new attribute value
rewriteValue(value, base) ==
    IF urlThrows(value) THEN value
    ELSE ProxyPrefix \o encodeURIComponent(urlHref(value, base))

\* the regular expression matches an attribute of a page with base `base`
MatchAttr(attr, value, base) ==
    /\ html.stage = "none"
    /\ html' = [stage |-> "matched", attr |-> attr, value |-> value,
                base |-> base, out |-> <<>>]
    /\ UNCHANGED <<variant, addr, verdict, slots, chainCap, quota, served,
                   minted, cookieJar, jars, h, w, recency, passed, entry>>

\* the callback returns the replacement
Rewrite ==
    /\ html.stage = "matched"
    /\ html' = [html EXCEPT !.stage = "rewritten",
                            !.out = rewriteValue(html.value, html.base)]
    /\ UNCHANGED <<variant, addr, verdict, slots, chainCap, quota, served,
                   minted, cookieJar, jars, h, w, recency, passed, entry>>

\* the next match
NextAttr ==
    /\ html.stage = "rewritten"
    /\ html' = NoHtml
    /\ UNCHANGED <<variant, addr, verdict, slots, chainCap, quota, served,
                   minted, cookieJar, jars, h, w, recency, passed, entry>>

(***************************************************************************)
(* The Content Rewriter over a whole page.  A page is the sequence of its  *)
(* rewritable places; src/unnamed/part_000 ("part000") rewrites four kinds *)
(* of them, server.js and part_003 the attributes only.                    *)
(***************************************************************************)
\* a place of a page: an href/src/action attribute, the string literal of
\* fetch("...") or of new WebSocket("..."), the url= part of the content of
\* a <meta http-equiv="refresh">
PlaceKinds == {"attr", "fetch", "websocket", "meta"}
PageValues == {ValAbout, ValAbsolute, ValBadHost}
Places == [kind : PlaceKinds, value : PageValues]

\* pages of up to MaxPlaces places
Pages == UNION {[1..n -> Places] : n \in 0..MaxPlaces}

PathPrefix == <<"/", "p", "/">>
WsPrefix   == <<"/", "w", "s", "?", "u", "r", "l", "=">>

\* the html.replace passes of the variant
rewrittenKinds ==
    IF variant = "part000" THEN PlaceKinds ELSE {"attr"}

\* only the callback of the attribute pass wraps new URL() in try/catch
placeThrows(place) ==
    /\ place.kind \in rewrittenKinds
    /\ place.kind # "attr"
    /\ urlThrows(place.value)

\* what a callback returns for a place
rewritePlace(place, base) ==
    LET abs == encodeURIComponent(urlHref(place.value, base))
    IN  CASE place.kind \notin rewrittenKinds -> place.value
          [] urlThrows(place.value) -> place.value
          [] place.kind = "websocket" -> WsPrefix \o abs
          [] variant = "part000" -> PathPrefix \o abs
          [] OTHER -> ProxyPrefix \o abs

\* await response.text() has settled with a page of type text/html
PageArrives(page, base) ==
    /\ html.stage = "none"
    /\ html' = [stage |-> "page", items |-> page, base |-> base,
                status |-> 0, body |-> <<>>, text |-> ""]
    /\ UNCHANGED <<variant, addr, verdict, slots, chainCap, quota, served,
                   minted, cookieJar, jars, h, w, recency, passed, entry>>

\* The rewriting and res.send(html); an exception of a callback leaves
\* html.replace and the try block: res.status(500).send("fetch error").
RewriteHtml ==
    /\ html.stage = "page"
    /\ IF \E i \in 1..Len(html.items) : placeThrows(html.items[i])
       THEN html' = [html EXCEPT !.stage = "sent", !.status = 500,
                                 !.text = "fetch error"]
       ELSE html' = [html EXCEPT
                       !.stage = "sent", !.status = 200,
                       !.body = [i \in 1..Len(html.items) |->
                                   rewritePlace(html.items[i], html.base)]]
    /\ UNCHANGED <<variant, addr, verdict, slots, chainCap, quota, served,
                   minted, cookieJar, jars, h, w, recency, passed, entry>>

\* the next page
NextPage ==
    /\ html.stage = "sent"
    /\ html' = NoHtml
    /\ UNCHANGED <<variant, addr, verdict, slots, chainCap, quota, served,
                   minted, cookieJar, jars, h, w, recency, passed, entry>>

(***************************************************************************)
(* The /proxy handler of src/unnamed/part_002 ("part002"): a shared key,   *)
(* no session, no address guard, redirects followed by fetch itself.       *)
(***************************************************************************)
\* req.query.key against PROXY_KEY
Keys == {"absent", "right", "wrong"}

\* the checks before the fetch, in the order of the code: "ok" or the
\* response [status, body] that ends the handler
keyGate(raw, key) ==
    CASE raw.kind = "missing" -> [status |-> 200, body |-> "url required"]
      [] key # "right" -> [status |-> 403, body |-> "forbidden"]
      [] raw.kind = "unparseable" -> [status |-> 200, body |-> "invalid url"]
      [] raw.kind # "http" -> [status |-> 200, body |-> "invalid protocol"]
      [] OTHER -> [status |-> 0, body |-> "ok"]

\* A request arrives at app.get("/proxy") of part_002: the checks, then
\* fetch(url) is issued.
KeyReceive(p, raw, key) ==
    /\ p \in slots
    /\ variant = "part002"
    /\ h[p].pc = "idle"
    /\ served < quota
    /\ served' = served + 1
    /\ LET slot == [IdleSlot EXCEPT !.key = key]
           gate == keyGate(raw, key)
       IN  IF gate.body # "ok"
           THEN Step(p, Respond(slot, gate.status, gate.body, "", "none"),
                     cookieJar, jars)
           ELSE Step(p, [slot EXCEPT !.pc = "fetch", !.url = raw.host,
                                     !.scheme = raw.kind,
                                     !.fetchUrl = raw.host,
                                     !.fetchScheme = raw.kind,
                                     !.fetches = 1],
                     cookieJar, jars)
    /\ UNCHANGED <<variant, addr, verdict, slots, chainCap, quota, minted, w,
                   passed, html, entry>>

\* fetch(url) of part_002 settles: it rejects, or it resolves with the
\* response at the end of the redirects it followed
KeyFetched(p, ok) ==
    /\ p \in slots
    /\ variant = "part002"
    /\ h[p].pc = "fetch"
    /\ IF ok
       THEN Step(p, Respond(h[p], 200, h[p].fetchUrl, "", "none"),
                 cookieJar, jars)
       ELSE Step(p, FetchError(h[p], "fetch failed"), cookieJar, jars)
    /\ UNCHANGED <<variant, addr, verdict, slots, chainCap, quota, served,
                   minted, w, passed, html, entry>>

(***************************************************************************)
(* The entry points of src/unnamed/part_000: /proxy?url=... and /p/...     *)
(* A request is followed from the wire to the target the handler uses.     *)
(***************************************************************************)
\* absolute target URLs: an origin and a path with query or fragment
EntryOrigins ==
    {<<"h", "t", "t", "p", "s", ":", "/", "/", "e", "x", "a", "m", "p", "l",
       "e", ".", "c", "o", "m">>,
     <<"h", "t", "t", "p", ":", "/", "/", "a", ".", "e", "x", "a", "m", "p",
       "l", "e">>}

EntryPaths ==
    {<<"/">>,
     <<"/", "a", "b", "o", "u", "t">>,
     <<"/", "x", "?", "q", "=", "1">>,
     <<"/", "d", "/", "p", "#", "t", "o", "p">>,
     <<"/", "a", ",", "b">>,
     <<"/", "a", "%", "2", "F", "b">>,
     <<"/", "1", "0", "0", "%", "2", "5">>,
     <<"/", "5", "0", "%">>,
     <<"/", "%", "2", "5", "2", "F">>}

AbsTargets == {o \o q : o \in EntryOrigins, q \in EntryPaths}

\* the character a %XX escape stands for, "" when XX is no escape
unescape(a, b) ==
    CASE <<a, b>> = <<"3", "A">> -> ":"
      [] <<a, b>> = <<"2", "F">> -> "/"
      [] <<a, b>> = <<"3", "F">> -> "?"
      [] <<a, b>> = <<"2", "3">> -> "#"
      [] <<a, b>> = <<"5", "B">> -> "["
      [] <<a, b>> = <<"5", "D">> -> "]"
      [] <<a, b>> = <<"4", "0">> -> "@"
      [] <<a, b>> = <<"3", "D">> -> "="
      [] <<a, b>> = <<"2", "C">> -> ","
      [] <<a, b>> = <<"2", "6">> -> "&"
      [] <<a, b>> = <<"2", "5">> -> "%"
      [] <<a, b>> = <<"2", "0">> -> " "
      [] OTHER -> ""

\* what decodeURIComponent throws on a malformed escape
URIError == <<"URIError">>

\* decodeURIComponent(s)
RECURSIVE decodeURIComponent(_)
decodeURIComponent(s) ==
    IF s = <<>> THEN <<>>
    ELSE IF Head(s) # "%"
    THEN LET rest == decodeURIComponent(Tail(s))
         IN  IF rest = URIError THEN URIError ELSE <<Head(s)>> \o rest
    ELSE IF Len(s) < 3 \/ unescape(s[2], s[3]) = "" THEN URIError
    ELSE LET rest == decodeURIComponent(SubSeq(s, 4, Len(s)))
         IN  IF rest = URIError THEN URIError
             ELSE <<unescape(s[2], s[3])>> \o rest

EntryForms == {"query", "path"}

\* the request line: /proxy?url=<encoded> or /p/<encoded>
wirePrefix(form) == IF form = "path" THEN PathPrefix ELSE ProxyPrefix

\* req.query = { url: decodeURIComponent(req.params[0]) }
pathTarget(param) == decodeURIComponent(param)

\* a client requests target u through one of the two forms, encoded as the
\* rewriter and the form of the top page encode it
EntryRequest(form, u) ==
    /\ entry.stage = "none"
    /\ entry' = [stage |-> "requested", form |-> form, u |-> u,
                 wire |-> wirePrefix(form) \o encodeURIComponent(u),
                 param |-> <<>>, target |-> <<>>, status |-> 0]
    /\ UNCHANGED <<variant, addr, verdict, slots, chainCap, quota, served,
                   minted, cookieJar, jars, h, w, recency, passed, html>>

\* Express matches the route: the query parser decodes the url parameter,
\* the router decodes the wildcard of "/p/*" into req.params[0]
RouteMatched ==
    /\ entry.stage = "requested"
    /\ LET encoded == SubSeq(entry.wire, Len(wirePrefix(entry.form)) + 1,
                             Len(entry.wire))
       IN  entry' = [entry EXCEPT !.stage = "matched",
                                  !.param = decodeURIComponent(encoded)]
    /\ UNCHANGED <<variant, addr, verdict, slots, chainCap, quota, served,
                   minted, cookieJar, jars, h, w, recency, passed, html>>

\* The middleware of "/p/*" sets req.query.url and the /proxy handler
\* reads it; a URIError thrown by the middleware is answered 500 by
\* Express.
EntryRouted ==
    /\ entry.stage = "matched"
    /\ LET target == IF entry.form = "path" THEN pathTarget(entry.param)
                     ELSE entry.param
       IN  entry' = [entry EXCEPT
                       !.stage = "routed",
                       !.target = target,
                       !.status = IF target = URIError THEN 500 ELSE 0]
    /\ UNCHANGED <<variant, addr, verdict, slots, chainCap, quota, served,
                   minted, cookieJar, jars, h, w, recency, passed, html>>

\* the next request
NextEntry ==
    /\ entry.stage = "routed"
    /\ entry' = NoEntry
    /\ UNCHANGED <<variant, addr, verdict, slots, chainCap, quota, served,
                   minted, cookieJar, jars, h, w, recency, passed, html>>

(***************************************************************************)
(* Specifications.                                                         *)
(***************************************************************************)
InitCommon ==
    /\ variant \in {"server", "part003"}
    /\ addr = <<>>
    /\ verdict = "none"
    /\ served = 0
    /\ cookieJar = [k \in JarKeys |-> NoJar]
    /\ jars = [i \in JarIds |-> {}]
    /\ h = [p \in Slots |-> IdleSlot]
    /\ w = IdleWs
    /\ recency = <<>>
    /\ passed = NoPass
    /\ html = NoHtml
    /\ entry = NoEntry

\* One request at a time, redirect chains of any length up to MaxChain.
\* No jar is stored yet; a session id may have been minted by an earlier
\* request whose response set no cookie.
Init ==
    /\ InitCommon
    /\ slots = {1}
    /\ chainCap = MaxChain
    /\ quota = MaxRequests
    /\ minted \in {0, 1}

\* One request after the other, short redirect chains.
SessionInit ==
    /\ InitCommon
    /\ slots = {1}
    /\ chainCap = JarChain
    /\ quota = JarRequests
    /\ minted \in {0, 1}

\* One request after the other, enough of them to fill the LRU.
StoreInit ==
    /\ InitCommon
    /\ slots = {1}
    /\ chainCap = 0
    /\ quota = StoreRequests
    /\ minted \in {0, 1}

\* Two requests that may overlap; their upstreams answer without a
\* redirect to follow.
ConcInit ==
    /\ InitCommon
    /\ slots = Slots
    /\ chainCap = 0
    /\ quota = JarRequests
    /\ minted \in {0, 1}

\* a client sends a request: its cookie, target, Origin, and the redirect
\* chain the upstream world holds for the target
Request(p) ==
    /\ h[p].pc = "idle"
    /\ served < quota
    /\ \E sidIn \in NoSid..minted, raw \in RawTargets, origin \in Origins,
          chain \in 0..chainCap :
           Receive(p, sidIn, raw, origin, chain)

\* the upstream answers the request in flight
Fetched(p) ==
    /\ h[p].pc = "fetch"
    /\ \E r \in Responses : FetchResponse(p, r)

Next ==
    \E p \in Slots :
        \/ Request(p)
        \/ Resolved(p)
        \/ Fetched(p)
        \/ Timeout(p)
        \/ HopResolved(p)
        \/ StoreCookies(p)
        \/ Reset(p)

Spec == Init /\ [][Next]_vars

SessionSpec == SessionInit /\ [][Next]_vars

ConcNext ==
    \E p \in Slots :
        \/ Request(p)
        \/ Resolved(p)
        \/ Fetched(p)
        \/ Timeout(p)
        \/ StoreCookies(p)
        \/ Reset(p)

ConcSpec == ConcInit /\ [][ConcNext]_vars

\* the jar that session 1 holds for a.example after a response of
\* a.example set the cookie "id"
SeedCookie == [name |-> "id", setBy |-> "a.example", sess |-> 1]

\* Upgrade requests against a store that is empty or holds one jar.
WsInit ==
    /\ variant \in {"server", "part003"}
    /\ addr = <<>>
    /\ verdict = "none"
    /\ slots = {}
    /\ chainCap = 0
    /\ quota = 0
    /\ served = 0
    /\ minted = 1
    /\ \E seeded \in BOOLEAN :
          /\ cookieJar = [k \in JarKeys |->
                            IF seeded /\ k = jarKey(1, "a.example")
                            THEN 1 ELSE NoJar]
          /\ jars = [i \in JarIds |->
                       IF seeded /\ i = 1 THEN {SeedCookie} ELSE {}]
          /\ recency = IF seeded THEN <<jarKey(1, "a.example")>> ELSE <<>>
    /\ h = [p \in Slots |-> IdleSlot]
    /\ w = IdleWs
    /\ passed = NoPass
    /\ html = NoHtml
    /\ entry = NoEntry

WsNext ==
    \/ \E raw \in WsTargets, sidIn \in {NoSid} \cup Sids, origin \in Origins :
           WsConnect(raw, sidIn, origin)
    \/ WsResolved
    \/ UpstreamOpen
    \/ ClientFrame
    \/ UpstreamFrame
    \/ \E code \in PeerCodes : ClientClose(code)
    \/ \E code \in PeerCodes : UpstreamClose(code)
    \/ UpstreamError
    \/ WsReset

WsSpec == WsInit /\ [][WsNext]_vars

\* Addresses put to the guard one after the other.
GuardInit ==
    /\ InitCommon
    /\ slots = {}
    /\ chainCap = 0
    /\ quota = 0
    /\ minted = 0

GuardNext ==
    \/ Classify
    \/ \E a \in Addresses : NextAddress(a)

GuardSpec == GuardInit /\ [][GuardNext]_vars

\* Upstream responses of every content type and header set, one after the
\* other.
PassNext ==
    \/ \E ct \in ContentTypes, headers \in SUBSET HeaderNames,
          status \in UpstreamStatuses, newSid \in BOOLEAN :
           UpstreamResponse(ct, headers, status, newSid)
    \/ SendResponse
    \/ \E newSid \in BOOLEAN : CatchResponse(newSid)
    \/ NextResponse

StoreSpec == StoreInit /\ [][ConcNext]_vars

PassSpec == GuardInit /\ [][PassNext]_vars

\* Attributes of pages rewritten one after the other.
RewriteNext ==
    \/ \E attr \in AttrNames, value \in AttrValues, base \in Bases :
           MatchAttr(attr, value, base)
    \/ Rewrite
    \/ NextAttr

RewriteSpec == GuardInit /\ [][RewriteNext]_vars

\* The variants that rewrite pages: server.js, part_003 and part_000.
PageInit ==
    /\ variant \in {"server", "part003", "part000"}
    /\ addr = <<>>
    /\ verdict = "none"
    /\ slots = {}
    /\ chainCap = 0
    /\ quota = 0
    /\ served = 0
    /\ minted = 0
    /\ cookieJar = [k \in JarKeys |-> NoJar]
    /\ jars = [i \in JarIds |-> {}]
    /\ h = [p \in Slots |-> IdleSlot]
    /\ w = IdleWs
    /\ recency = <<>>
    /\ passed = NoPass
    /\ html = NoHtml
    /\ entry = NoEntry

\* Pages rewritten one after the other.
PageNext ==
    \/ \E page \in Pages, base \in Bases : PageArrives(page, base)
    \/ RewriteHtml
    \/ NextPage

PageSpec == PageInit /\ [][PageNext]_vars

\* The variants with an access control: the Origin allow-list of server.js
\* and part_003, the shared key of part_002.  One request after the other.
KeyInit ==
    /\ variant \in {"server", "part003", "part002"}
    /\ addr = <<>>
    /\ verdict = "none"
    /\ slots = {1}
    /\ chainCap = JarChain
    /\ quota = MaxRequests
    /\ served = 0
    /\ minted \in {0, 1}
    /\ cookieJar = [k \in JarKeys |-> NoJar]
    /\ jars = [i \in JarIds |-> {}]
    /\ h = [p \in Slots |-> IdleSlot]
    /\ w = IdleWs
    /\ recency = <<>>
    /\ passed = NoPass
    /\ html = NoHtml
    /\ entry = NoEntry

\* a client sends a request to part_002
KeyRequest(p) ==
    /\ h[p].pc = "idle"
    /\ served < quota
    /\ \E raw \in RawTargets, key \in Keys : KeyReceive(p, raw, key)

\* server.js and part_003 run the handler modelled above
guarded == variant # "part002"

KeyNext ==
    \E p \in Slots :
        \/ KeyRequest(p)
        \/ \E ok \in BOOLEAN : KeyFetched(p, ok)
        \/ guarded /\ Request(p)
        \/ guarded /\ Resolved(p)
        \/ guarded /\ Fetched(p)
        \/ guarded /\ Timeout(p)
        \/ guarded /\ HopResolved(p)
        \/ guarded /\ StoreCookies(p)
        \/ Reset(p)

KeySpec == KeyInit /\ [][KeyNext]_vars

\* part_000, the variant with both entry points.
EntryInit ==
    /\ PageInit
    /\ variant = "part000"

\* Requests through either entry point, one after the other.
EntryNext ==
    \/ \E form \in EntryForms, u \in AbsTargets : EntryRequest(form, u)
    \/ RouteMatched
    \/ EntryRouted
    \/ NextEntry

EntrySpec == EntryInit /\ [][EntryNext]_vars

\* A single request of any frame (the frame of a request does not outlive
\* it), against a store that is empty or holds the jar of session 1 for
\* a.example.
FrameInit ==
    /\ variant \in {"server", "part003"}
    /\ addr = <<>>
    /\ verdict = "none"
    /\ slots = {1}
    /\ chainCap = FrameChain
    /\ quota = 1
    /\ served = 0
    /\ minted = 1
    /\ \E seeded \in BOOLEAN :
          /\ cookieJar = [k \in JarKeys |->
                            IF seeded /\ k = jarKey(1, "a.example")
                            THEN 1 ELSE NoJar]
          /\ jars = [i \in JarIds |->
                       IF seeded /\ i = 1 THEN {SeedCookie} ELSE {}]
          /\ recency = IF seeded THEN <<jarKey(1, "a.example")>> ELSE <<>>
    /\ h = [p \in Slots |-> IdleSlot]
    /\ w = IdleWs
    /\ passed = NoPass
    /\ html = NoHtml
    /\ entry = NoEntry

\* a client sends a request with any method, body and headers
FrameRequest(p) ==
    /\ h[p].pc = "idle"
    /\ served < quota
    /\ \E sidIn \in NoSid..minted, raw \in RawTargets, origin \in Origins,
          chain \in 0..chainCap, req \in Frames :
           ReceiveReq(p, sidIn, raw, origin, chain, req)

FrameNext ==
    \E p \in Slots :
        \/ FrameRequest(p)
        \/ Resolved(p)
        \/ Fetched(p)
        \/ Timeout(p)
        \/ HopResolved(p)
        \/ StoreCookies(p)
        \/ Reset(p)

FrameSpec == FrameInit /\ [][FrameNext]_vars

(***************************************************************************)
(* Properties.                                                             *)
(***************************************************************************)
\* the classes of addresses that the design calls blocked: private,
\* loopback, link-local, unique-local, unspecified and reserved ranges, and
\* every string that is no address
InBlockedClass(a) ==
    ipaddrRange(a) \in {"private", "loopback", "linkLocal", "uniqueLocal",
                        "unspecified", "reserved", "invalid"}

\* the ranges that the design lists one by one, and strings that are no
\* address
InListedRange(a) ==
    ipaddrRange(a) \in {"private", "loopback", "linkLocal", "uniqueLocal",
                        "unspecified", "invalid"}

\* a name with no address, or whose addresses are all of a blocked class
OnlyBlockedClass(hostname) ==
    \/ ~Lookup(hostname).ok
    \/ \A i \in 1..Len(Lookup(hostname).addrs) :
           InBlockedClass(Lookup(hostname).addrs[i])

\* the names all of whose addresses the guard blocks
OnlyBlockedHosts ==
    {x \in Hosts : /\ Lookup(x).ok
                   /\ \A i \in 1..Len(Lookup(x).addrs) :
                          isBlockedIP(Lookup(x).addrs[i])}

\* a name all of whose addresses the guard blocks (no other string is one)
OnlyBlocked(hostname) == hostname \in OnlyBlockedHosts

\* C1: a /proxy request whose target resolves to no address or only to
\* addresses of a blocked class (private, loopback, link-local, reserved)
\* fails and issues no upstream request; a request whose target has an
\* address outside these classes passes validation and issues one.
C1_BlockedTargetNeverFetched ==
    \A p \in Slots :
        /\ h[p].fetches >= 1 => ~OnlyBlockedClass(h[p].url)
        /\ h[p].pc = "done" /\ h[p].url # "" /\ OnlyBlockedClass(h[p].url)
               => h[p].res.status = 500
        /\ h[p].pc = "done" /\ h[p].url # "" /\ ~OnlyBlockedClass(h[p].url)
               => h[p].fetches >= 1

\* The gate of C1 read against the verdict of isBlockedIP instead of the
\* classes: it holds.
GateFollowsGuard ==
    \A p \in Slots :
        /\ h[p].fetches >= 1 =>
               Lookup(h[p].url).ok /\ ~OnlyBlocked(h[p].url)
        /\ h[p].pc = "done" /\ h[p].url # ""
               => (h[p].fetches >= 1 <=>
                       Lookup(h[p].url).ok /\ ~OnlyBlocked(h[p].url))

\* C2: in the redirect loop no upstream request goes to a host that
\* resolves only to blocked addresses; once a Location names such a host
\* the run issues no further request and ends in the failure response, and
\* no body handed to the client comes from such a host.
C2_RedirectHopsChecked ==
    \A p \in Slots :
        /\ h[p].pc = "fetch" => ~OnlyBlocked(h[p].fetchUrl)
        /\ h[p].blockedHop => h[p].pc \in {"hopLookup", "done"}
        /\ h[p].blockedHop /\ h[p].pc = "done"
               => h[p].res.status = 500 /\ h[p].res.body = "fetch error"
        /\ h[p].pc = "done" /\ h[p].res.status \notin {403, 500}
               => ~OnlyBlocked(h[p].res.body)

\* a run that was redirected to a blocked host after at least one fetch
C2_Witness ==
    \E p \in Slots :
        /\ h[p].pc = "done"
        /\ h[p].blockedHop
        /\ h[p].fetches >= 1
        /\ h[p].res.status = 500

\* C10: isBlockedIP returns blocked for every address of the listed ranges
\* and for every string that is no address, and returns not-blocked only
\* for addresses outside the private, loopback, link-local and reserved
\* classes.
C10_GuardMatchesClasses ==
    /\ verdict # "none" /\ InListedRange(addr) => verdict = "blocked"
    /\ verdict = "allowed" => ~InBlockedClass(addr)

\* The first half of C10 alone: it holds.
ListedRangesBlocked ==
    verdict # "none" /\ InListedRange(addr) => verdict = "blocked"

\* C3: a cookie set by a response of host A under session S is attached
\* only to upstream requests to host A under session S.
C3_CookieIsolation ==
    \A p \in Slots :
        h[p].pc = "fetch" =>
            \A c \in h[p].cookie.jar :
                c.setBy = h[p].fetchUrl /\ c.sess = h[p].sid

\* The half of C3 about sessions alone: it holds.
CookiesStayInSession ==
    \A p \in Slots :
        h[p].pc = "fetch" => \A c \in h[p].cookie.jar : c.sess = h[p].sid

\* C4: no upstream request carries the proxy_sid cookie, on the first
\* fetch and on every redirect hop, whether or not a jar exists.
C4_ProxySidNeverUpstream ==
    \A p \in Slots : h[p].pc = "fetch" => ~h[p].cookie.proxySid

\* C5: a request whose redirect chain is longer than 5 hops ends in the
\* failure response, not in a 3xx or an upstream body, and issues no
\* upstream request beyond the first and the 5 hops.
C5_LongChainFails ==
    \A p \in Slots :
        h[p].chain > 5 =>
            /\ h[p].fetches <= 6
            /\ h[p].pc = "done" => h[p].res.status = 500

\* C5 for src/server.js alone: it holds.
LongChainFailsInServerJs ==
    variant = "server" => C5_LongChainFails

\* C6: a request whose redirect chain has at most 5 hops, all resolving to
\* an address that is not blocked and all answered, is followed to its end
\* and the client gets the terminal response: it does not fail for the
\* number of redirects, and when it succeeds it has fetched every hop.
C6_ShortChainFollowed ==
    \A p \in Slots :
        h[p].pc = "done" /\ h[p].url # "" /\ h[p].chain <= 5 =>
            /\ h[p].res.log # "Too many redirects"
            /\ h[p].res.log = "" => h[p].fetches = h[p].chain + 1

\* C6 for chains of at most 4 hops: it holds.
ChainOfFourFollowed ==
    \A p \in Slots :
        h[p].pc = "done" /\ h[p].url # "" /\ h[p].chain <= 4 =>
            /\ h[p].res.log # "Too many redirects"
            /\ h[p].res.log = "" => h[p].fetches = h[p].chain + 1

\* the upgrade requests that C7 says must be refused
WsMustRefuse ==
    \/ w.raw.kind \in {"missing", "http"}
    \/ /\ w.raw.kind = "ws"
       /\ Lookup(w.raw.host).ok
       /\ \E i \in 1..Len(Lookup(w.raw.host).addrs) :
              isBlockedIP(Lookup(w.raw.host).addrs[i])

\* C7: an upgrade request without url, with a url that does not start with
\* ws:// or wss://, or to a host one of whose addresses is blocked, never
\* opens an upstream WebSocket, and once the handler has decided the
\* client socket is closed with code 1008.
C7_WsRefused ==
    WsMustRefuse =>
        /\ w.upstream = "none"
        /\ w.pc \notin {"idle", "lookup"} => w.pc = "closed" /\ w.closeCode = 1008

\* an upgrade to a host with a blocked and a public address was closed
C7_Witness ==
    /\ w.pc = "closed"
    /\ w.raw.kind = "ws"
    /\ w.raw.host = "b.example"
    /\ w.closeCode = 1008
    /\ w.upstream = "none"

\* the cookies stored in the jar of a key, {} when the key has none
Stored(key) == IF cookieJar[key] = NoJar THEN {} ELSE jars[cookieJar[key]]

\* C8: when two requests for the same (session, host) both ended with a
\* response whose Set-Cookie they recorded, the stored jar holds the
\* cookies of both.
C8_NoLostUpdate ==
    \A p, q \in Slots :
        /\ p # q
        /\ h[p].pc = "done" /\ h[q].pc = "done"
        /\ h[p].sid = h[q].sid /\ h[p].url = h[q].url
        /\ h[p].res.recorded \in CookieNames
        /\ h[q].res.recorded \in CookieNames
        => {h[p].res.recorded, h[q].res.recorded}
               \subseteq {c.name : c \in Stored(jarKey(h[p].sid, h[p].url))}

\* C9: once a terminal response of host H under session S has set a
\* cookie, a later request under S to H attaches it, and a request under S
\* to another host does not.  (One request runs at a time, so every stored
\* cookie was recorded before the request at hand.)
C9_CookieReplay ==
    \A p \in Slots :
        h[p].pc = "fetch" /\ h[p].fetches = 1 =>
            /\ \A k \in JarKeys : \A c \in Stored(k) :
                   c.sess = h[p].sid /\ c.setBy = h[p].url
                       => c \in h[p].cookie.jar
            /\ \A c \in h[p].cookie.jar : c.setBy = h[p].url

\* C9 for cookies set by the host that was asked for: it holds.
ReplayWithoutRedirect ==
    \A p \in Slots :
        h[p].pc = "fetch" /\ h[p].fetches = 1 =>
            \A c \in Stored(jarKey(h[p].sid, h[p].url)) : c \in h[p].cookie.jar

\* C11: every target handed to fetch by the /proxy handler, the first and
\* every redirect hop, has scheme http or https.
C11_OnlyHttpFetched ==
    \A p \in Slots : h[p].pc = "fetch" => h[p].fetchScheme = "http"

\* What stands between a target of another scheme and the network is fetch
\* itself: such a fetch is never answered, the request ends in the failure
\* response.
OtherSchemeNeverAnswered ==
    \A p \in Slots :
        h[p].pc = "done" /\ h[p].scheme = "ftp" => h[p].res.status \in {403, 500}

\* C12: once the timeout has elapsed before the redirect loop obtained its
\* terminal response, no upstream request of the inbound request is in
\* flight or issued any more, and the client gets the failure response.
C12_TimeoutBoundsRequest ==
    \A p \in Slots :
        h[p].elapsed =>
            /\ h[p].pc \in {"hopLookup", "done"}
            /\ h[p].pc = "done" => h[p].res.status = 500

\* C12 for src/server.js alone: it holds.
TimeoutBoundsServerJs ==
    variant = "server" => C12_TimeoutBoundsRequest

\* C13: in a tunnel that passed validation and whose upstream is open,
\* every frame the client sent has reached the upstream socket and every
\* frame the upstream sent has reached the client, in order; none was
\* dropped for arriving during validation or connection.
C13_FramesRelayed ==
    w.pc = "open" /\ w.upstream = "open" =>
        /\ w.toUpstream = w.sent
        /\ w.toClient = w.fromUpstream

\* C13 from the upstream to the client: it holds.
UpstreamFramesRelayed ==
    w.pc = "open" => w.toClient = w.fromUpstream

\* C14: a tunnel never has one socket closed and the other open, and the
\* two close codes match.
C14_ClosePropagates ==
    /\ w.upstream = "closed" => w.pc \in {"closed", "crashed"}
    /\ w.pc = "closed" /\ w.upstream # "none" =>
           w.upstream = "closed" /\ w.upstreamCode = w.closeCode

\* C14 from the client to the upstream, codes aside: it holds.
ClientClosePropagates ==
    w.pc = "closed" /\ w.upstream # "none" => w.upstream = "closed"

\* C15: a failure during the setup of a tunnel closes the client socket:
\* with 1008 for a refused target, with 1011 for a target that new URL()
\* rejects or whose DNS lookup fails.
C15_SetupFailureCloses ==
    /\ w.pc # "hung"
    /\ w.pc = "closed" /\ w.upstream = "none" => w.closeCode \in {1008, 1011}
    /\ w.pc = "closed" /\ w.upstream = "none" /\ w.closeCode = 1011 =>
           \/ w.raw.kind = "unparseable"
           \/ ~Lookup(w.raw.host).ok

\* C15 for src/unnamed/part_003 alone: it holds.
SetupFailureClosesInPart003 ==
    variant = "part003" => C15_SetupFailureCloses

\* what console.error printed for a request without url, with a
\* javascript:, data: or # url, or with a url that new URL() rejects
InputErrors == {"Invalid URL", "Blocked URL", "TypeError"}

\* what it printed for the redirect limit, an unreachable upstream and the
\* timeout
UpstreamErrors == {"Too many redirects", "fetch failed", "AbortError"}

\* C16: a request with a missing or unparseable url or a disallowed scheme
\* is answered with a 4xx status and no upstream request; a redirect-limit,
\* unreachable-upstream or timeout failure with a 5xx status and the
\* generic message.
C16_ErrorClasses ==
    \A p \in Slots :
        h[p].pc = "done" =>
            /\ h[p].res.log \in InputErrors \/ h[p].scheme = "ftp" =>
                   h[p].fetches = 0 /\ h[p].res.status \in 400..499
            /\ h[p].res.log \in UpstreamErrors =>
                   h[p].res.status \in 500..599 /\ h[p].res.body = "fetch error"

\* The parts of C16 that hold: a bad url causes no upstream request, and
\* upstream failures are answered 500 "fetch error".
ErrorClassesServerSide ==
    \A p \in Slots :
        h[p].pc = "done" =>
            /\ h[p].res.log \in InputErrors => h[p].fetches = 0
            /\ h[p].res.log \in UpstreamErrors =>
                   h[p].res.status = 500 /\ h[p].res.body = "fetch error"

\* what the client sees of a response
clientView(slot) == <<slot.res.status, slot.res.body>>

\* C17: the client sees the same status and body when the address guard
\* refused the target or a redirect hop as when the upstream could not be
\* reached.
C17_BlockedLooksUnreachable ==
    \A p \in Slots :
        h[p].pc = "done" /\ h[p].res.log = "Blocked IP" =>
            clientView(h[p]) = clientView(FetchError(h[p], "fetch failed"))

\* a request ended because a redirect hop resolved to blocked addresses
C17_Witness ==
    \E p \in Slots :
        /\ h[p].pc = "done"
        /\ h[p].res.log = "Blocked IP"
        /\ h[p].fetches >= 1
        /\ h[p].res.body = "fetch error"

\* the headers that the design wants stripped from every response
StripList ==
    {"content-security-policy", "content-security-policy-report-only",
     "x-frame-options", "cross-origin-opener-policy",
     "cross-origin-embedder-policy", "cross-origin-resource-policy",
     "content-encoding"}

\* C18: no header of the strip list that the upstream sent is in the
\* response to the client, whatever the content type.
C18_HeadersStripped ==
    passed.stage = "sent" => passed.client \cap StripList = {}

\* The part of C18 that holds: content-security-policy is never passed
\* on, and a response sent as text passes on no upstream header.
CspStripped ==
    passed.stage = "sent" =>
        /\ "content-security-policy" \notin passed.client
        /\ passed.contentType = "text/html" => passed.client = {}

\* the keys for which the LRU holds a jar
StoredKeys == {k \in JarKeys : cookieJar[k] # NoJar}

\* the LRU lists every stored key once and holds at most LruMax of them
StoreBounded ==
    /\ Cardinality(StoredKeys) <= LruMax
    /\ Len(recency) = Cardinality(StoredKeys)
    /\ {recency[i] : i \in 1..Len(recency)} = StoredKeys

\* a key leaves the LRU only when a jar for a new key is inserted into the
\* full LRU, and then it is the least recently used key and the only one
EvictsOnlyLru ==
    \A k \in JarKeys :
        cookieJar[k] # NoJar /\ cookieJar'[k] = NoJar =>
            /\ Len(recency) = LruMax
            /\ k = recency[Len(recency)]
            /\ \E n \in JarKeys : cookieJar[n] = NoJar /\ cookieJar'[n] # NoJar
            /\ \A o \in JarKeys \ {k} : cookieJar[o] # NoJar => cookieJar'[o] # NoJar

skipped(value) ==
    \/ schemeOf(value) \in {<<"j", "a", "v", "a", "s", "c", "r", "i", "p", "t">>,
                            <<"d", "a", "t", "a">>}
    \/ value # <<>> /\ value[1] = "#"

\* the example of the design: href="/about" under https://example.com/
AboutRewritten ==
    <<"/", "p", "r", "o", "x", "y", "?", "u", "r", "l", "=", "h", "t", "t",
      "p", "s", "%", "3", "A", "%", "2", "F", "%", "2", "F", "e", "x", "a",
      "m", "p", "l", "e", ".", "c", "o", "m", "%", "2", "F", "a", "b", "o",
      "u", "t">>

\* C20: a rewritten attribute value is /proxy?url= followed by the
\* percent-encoded absolute URL, except that javascript:, data: and
\* fragment-only values and values that do not resolve stay as they were.
C20_AttributesRewritten ==
    html.stage = "rewritten" =>
        /\ skipped(html.value) \/ urlThrows(html.value) => html.out = html.value
        /\ ~skipped(html.value) /\ ~urlThrows(html.value) =>
               html.out = ProxyPrefix
                            \o encodeURIComponent(urlHref(html.value, html.base))
        /\ html.value = ValAbout /\ html.base = BaseRoot =>
               html.out = AboutRewritten

\* C20 without the javascript:, data: and fragment-only values: it holds.
OtherAttributesRewritten ==
    html.stage = "rewritten" /\ ~skipped(html.value) =>
        /\ urlThrows(html.value) => html.out = html.value
        /\ ~urlThrows(html.value) =>
               html.out = ProxyPrefix
                            \o encodeURIComponent(urlHref(html.value, html.base))
        /\ html.value = ValAbout /\ html.base = BaseRoot =>
               html.out = AboutRewritten

\* the page went to the client, each place either rewritten or as it was
bodyDegraded ==
    /\ html.status # 500
    /\ Len(html.body) = Len(html.items)
    /\ \A i \in 1..Len(html.items) :
           urlThrows(html.items[i].value) => html.body[i] = html.items[i].value

\* C21: a value that does not resolve as a URL, in an attribute, a fetch()
\* or WebSocket literal or a meta refresh, never turns the response into an
\* error: the page is sent with that value unmodified.
C21_RewriterFailsSoft ==
    html.stage = "sent" => bodyDegraded

\* C21 for server.js and part_003, whose only pass is the attribute pass:
\* it holds.
AttributePassFailsSoft ==
    html.stage = "sent" /\ variant # "part000" => bodyDegraded

\* C21 for the attribute pass of part_000: a page whose unresolvable values
\* are all in attributes is sent.
AttributesFailSoftInPart000 ==
    /\ html.stage = "sent"
    /\ \A i \in 1..Len(html.items) :
           urlThrows(html.items[i].value) => html.items[i].kind = "attr"
    => bodyDegraded

\* part_002: a request without the right key is answered 403 and fetches
\* nothing (part_002 keeps no cookie jar)
KeyRefused ==
    \A p \in Slots :
        variant = "part002" /\ h[p].key # "right" =>
            /\ h[p].pc # "fetch"
            /\ h[p].pc = "done" =>
                   h[p].res.status = 403 /\ h[p].fetches = 0

\* server.js, part_003: a request whose Origin is not on ALLOWED_ORIGINS is
\* answered 403, fetches nothing and leaves the store as it was
OriginRefused ==
    \A p \in Slots, sidIn \in {NoSid} \cup Sids, raw \in RawTargets,
       chain \in 0..JarChain :
        guarded /\ Receive(p, sidIn, raw, "foreign", chain) =>
            /\ h'[p].pc = "done"
            /\ h'[p].res.status = 403
            /\ h'[p].fetches = 0
            /\ cookieJar' = cookieJar /\ jars' = jars /\ recency' = recency

\* C22: a request without the shared secret, or with an Origin that is not
\* on the allow-list, is answered 403, and for it nothing is fetched and no
\* jar is read or changed.
C22_AccessControl ==
    []KeyRefused /\ [][OriginRefused]_vars

\* C22 for the Origin allow-list alone: it holds.
C22_OriginAllowList ==
    [][OriginRefused]_vars

\* C22 for the key of part_002 once a target is given: it holds.
KeyRefusedWithTarget ==
    \A p \in Slots :
        /\ variant = "part002"
        /\ h[p].key # "right"
        /\ h[p].pc = "done"
        /\ h[p].res.body # "url required"
        => h[p].res.status = 403 /\ h[p].fetches = 0

\* the target has a percent sign in it
hasPercent(u) == \E i \in 1..Len(u) : u[i] = "%"

\* C23: a request for target u, through /p/<encodeURIComponent(u)> as
\* through /proxy?url=<encodeURIComponent(u)>, is forwarded to u itself,
\* also when u holds percent-encoded characters.
C23_PathFormRoundTrips ==
    entry.stage = "routed" => entry.target = entry.u

\* C23 for the query form: it holds.
QueryFormRoundTrips ==
    entry.stage = "routed" /\ entry.form = "query" => entry.target = entry.u

\* C23 for targets without a percent sign: it holds for both forms.
PlainTargetsRoundTrip ==
    entry.stage = "routed" /\ ~hasPercent(entry.u) => entry.target = entry.u

\* the escapes undone twice: the request leaves for another target, or is
\* answered 500
PathFormDecodesTwice ==
    entry.stage = "routed" /\ entry.form = "path" =>
        entry.target = decodeURIComponent(entry.u)

\* a step in which the upstream answers slot p with a redirect whose
\* Location is a relative reference
RelativeRedirect(p) ==
    \E r \in Responses :
        r.kind = "redirect" /\ r.loc = "relative" /\ FetchResponse(p, r)

\* the next hop goes to the host that answered
staysOnHost(p) == h'[p].nextUrl = h[p].fetchUrl

\* C24: on every hop a relative Location is resolved against the URL of the
\* hop that returned it, so the next hop stays on the host that issued the
\* redirect.
C24_RelativeLocationBase ==
    [][\A p \in Slots : RelativeRedirect(p) => staysOnHost(p)]_vars

\* C24 for part_003, which resolves against fetchUrl: it holds.
RelativeLocationBaseInPart003 ==
    [][\A p \in Slots :
         variant = "part003" /\ RelativeRedirect(p) => staysOnHost(p)]_vars

\* server.js resolves every relative Location against the URL of the
\* inbound request
RelativeLocationGoesToFirstHost ==
    [][\A p \in Slots :
         variant = "server" /\ RelativeRedirect(p) =>
             h'[p].nextUrl = h[p].url]_vars

\* the body the upstream request carries
bodySent(options) == IF options.body = "none" THEN "" ELSE options.body

\* the request in flight has the method of the client's request
methodKept(slot) == slot.options.method = slot.req.method

\* the client's host and content-length are not forwarded; if the request
\* carries a Host header, the handler has set it
hopHeadersStripped(slot) ==
    slot.options.headers \cap {"host", "content-length"} = {}

\* the other headers of the client (Cookie apart) are all forwarded
otherHeadersPassed(slot) ==
    slot.options.headers = slot.req.headers \ {"host", "content-length"}

\* the Cookie header the client sent goes upstream as it came
cookiePassed(slot) == ~slot.newSid => slot.cookie.proxySid

\* C25: on every hop the upstream request has the method and the body of
\* the client's request, not its host and content-length headers, and every
\* other header of the client unchanged.
C25_FrameKept ==
    \A p \in Slots :
        h[p].pc = "fetch" =>
            /\ methodKept(h[p])
            /\ bodySent(h[p].options) = h[p].req.body
            /\ hopHeadersStripped(h[p])
            /\ otherHeadersPassed(h[p])
            /\ cookiePassed(h[p])

\* C25 as amended: the body is kept for methods other than GET and HEAD,
\* and the Cookie header is left out of the unchanged headers.
C25_FrameKeptAmended ==
    \A p \in Slots :
        h[p].pc = "fetch" =>
            /\ methodKept(h[p])
            /\ h[p].req.method \notin {"GET", "HEAD"} =>
                   bodySent(h[p].options) = h[p].req.body
            /\ hopHeadersStripped(h[p])
            /\ otherHeadersPassed(h[p])

\* a POST with a body and all headers is in flight on the hop after a
\* redirect
C25_Witness ==
    \E p \in Slots :
        /\ h[p].pc = "fetch"
        /\ h[p].redirectCount >= 1
        /\ h[p].req = [method |-> "POST", body |-> "data",
                       headers |-> ClientHeaders]
        /\ h[p].options.body = "data"
        /\ "accept" \in h[p].options.headers

\* C26: no response to the client carries a Set-Cookie header of an
\* upstream response.
C26_NoUpstreamSetCookie ==
    passed.stage = "sent" => passed.setCookie # "upstream"

\* C26 for the responses sent as text (HTML, and scripts in server.js),
\* which copy no upstream header: it holds.
TextHidesUpstreamSetCookie ==
    passed.stage = "sent" /\ sentAsText(passed.contentType) =>
        /\ passed.setCookie # "upstream"
        /\ "set-cookie" \notin passed.client

\* C27: when the handler has minted a session id, the response that is
\* sent carries the Set-Cookie header of proxy_sid, on every response path.
C27_SidCookieSent ==
    passed.stage = "sent" /\ passed.newSid => passed.setCookie = "proxy_sid"

\* C27 for the responses whose upstream set no cookie, and the error
\* responses: it holds.
SidCookieSentWithoutUpstreamCookie ==
    /\ passed.stage = "sent"
    /\ passed.newSid
    /\ "set-cookie" \notin passed.upstream
    => passed.setCookie = "proxy_sid"

\* C28: the status sent to the client is the status of the terminal
\* upstream response, for HTML, scripts and every other content type.
C28_StatusPassedThrough ==
    passed.stage = "sent" /\ passed.body = "upstream" =>
        passed.clientStatus = passed.status

\* C28 for the responses that are not sent as text: it holds.
StatusPassedForOtherTypes ==
    /\ passed.stage = "sent"
    /\ passed.body = "upstream"
    /\ ~sentAsText(passed.contentType)
    => passed.clientStatus = passed.status

=============================================================================
